---- MODULE Spec2Model ----
(***************************************************************************)
(* Model of cxxnet/utils/cxxnet_metric.h: the three streaming metrics      *)
(* (MetricRMSE, MetricCorrSqr, MetricError) and the MetricSet that owns    *)
(* them.                                                                   *)
(*                                                                         *)
(* Numbers.  Scores and labels are floats that are multiples of 1/2; the   *)
(* model holds such a value v as the integer 2v ("halves").  Products of   *)
(* two of them are held as the integer 4(v*w) ("quarters").  All sums the  *)
(* model reaches are small dyadic rationals, which float and double hold   *)
(* exactly, so the integer arithmetic below is the arithmetic of the code. *)
(*                                                                         *)
(* Strings are tuples of character codes, compared as strcmp compares.     *)
(***************************************************************************)
EXTENDS Integers, Sequences, FiniteSets, TLC

VARIABLES
    \* ---- a metric instance used on its own (MetricSpec) ----
    m,        \* the instance: its fields
    fresh,    \* a second instance, constructed when m was last cleared and
              \* given the same AddEval calls since
    mpre,     \* m before the last call
    mop,      \* the last call on m: its name, argument and outcome
    \* ---- a MetricSet (Spec) ----
    evals_,   \* std::vector<IMetric*>: a sequence of heap addresses
    heap,     \* address -> fields of the instance constructed there
    live,     \* addresses constructed and not yet deleted
    status,   \* "running", "aborted" (a failed utils::Assert) or "destroyed"
    pre,      \* evals_ and heap before the last call, if that was AddMetric
    op,       \* the last call on the set: its name and outcome (the members
              \* it visited, the fprintf arguments of a report)
    hist      \* history: names registered, instances passed since Clear, ...

mvars == <<m, fresh, mpre, mop>>
svars == <<evals_, heap, live, status, pre, op, hist>>
vars == <<m, fresh, mpre, mop, evals_, heap, live, status, pre, op, hist>>

\* ------------------------------------------------------------------ bounds
\* most instances in one batch (shape[1])
MaxBatch == 2
\* most instances one metric accumulates between two Clear calls (MetricSpec)
MaxInst == 3
\* most instances a MetricSet is passed between two Clear calls (Spec)
MaxTotal == 2
\* most metric instances a MetricSet constructs in one run
MaxAlloc == 3

\* output-axis sizes (shape[0]) of the score buffers tried
Shape0s == {1, 2}
\* score values tried, in halves: 0.0 and 0.5
ScoreVals == {0, 1}
\* label values tried, in halves: -0.5 and 1.5
LabelVals == {-1, 3}
\* what an uninitialised double or long may hold before the constructor runs
GarbageVals == {0, 7}

\* ----------------------------------------------------------------- strings
s_rmse == <<114, 109, 115, 101>>
s_error == <<101, 114, 114, 111, 114>>
s_r2 == <<114, 50>>
s_bogus == <<98, 111, 103, 117, 115>>
s_rms == <<114, 109, 115>>

\* the names AddMetric is called with
NameArgs == {s_rmse, s_error, s_r2, s_bogus, s_rms}

\* the character at 0-based offset i of a NUL-terminated string
CharAt(s, i) == IF i < Len(s) THEN s[i + 1] ELSE 0

\* strcmp: the sign of the first differing character, 0 when none differs
RECURSIVE strcmpFrom(_, _, _)
strcmpFrom(a, b, i) ==
    IF CharAt(a, i) # CharAt(b, i)
    THEN (IF CharAt(a, i) < CharAt(b, i) THEN -1 ELSE 1)
    ELSE IF CharAt(a, i) = 0 THEN 0
    ELSE strcmpFrom(a, b, i + 1)

\* mutant: strncmp( a, b, strlen(a) ), which takes a prefix for a match
RECURSIVE strncmpFrom(_, _, _, _)
strncmpFrom(a, b, i, n) ==
    IF ~(i < n) THEN 0
    ELSE IF CharAt(a, i) # CharAt(b, i)
    THEN (IF CharAt(a, i) < CharAt(b, i) THEN -1 ELSE 1)
    ELSE IF CharAt(a, i) = 0 THEN 0
    ELSE strncmpFrom(a, b, i + 1, n)

strcmp_Prefix(a, b) == strncmpFrom(a, b, 0, Len(a))

strcmp(a, b) == strcmpFrom(a, b, 0)

\* ----------------------------------------------------------------- batches
\* One AddEval argument: predscore with shape[0] scores for each of shape[1]
\* instances (predscore[i] is row i), and labels[0 .. shape[1]-1].
\* Rows and labels are 1-based sequences here: predscore[i][j] of the code is
\* b.predscore[i + 1][j + 1].
BatchesOf(k, n, scores, labels) ==
    [shape0 : {k}, shape1 : {n},
     predscore : [1..n -> [1..k -> scores]],
     labels : [1..n -> labels]]

\* the batches one metric is given (MetricSpec)
Batches ==
    UNION {BatchesOf(k, n, ScoreVals, LabelVals) :
              k \in Shape0s, n \in 0..MaxBatch}

\* the batches a MetricSet is given (Spec): every score is 0.5 and every
\* label 1.5
SetBatches ==
    UNION {BatchesOf(k, n, {1}, {3}) : k \in Shape0s, n \in 0..MaxBatch}

\* (int)x for a float x held in halves: truncation toward zero
IntCast(x) == IF x >= 0 THEN x \div 2 ELSE -((-x) \div 2)

\* -------------------------------------------------------------- utils::Assert
\* A failed assertion reports the message and ends the process.
utils_Assert(exp) == IF exp THEN "ok" ELSE "AssertError"

\* --------------------------------------------------------------- fractions
RECURSIVE GCD(_, _)
GCD(a, b) == IF b = 0 THEN a ELSE GCD(b, a % b)

Abs(x) == IF x < 0 THEN -x ELSE x

\* the double n/d: a reduced fraction, or what IEEE division by zero gives
Div(n, d) ==
    IF d = 0 THEN (IF n = 0 THEN "nan" ELSE IF n > 0 THEN "inf" ELSE "-inf")
    ELSE LET g == GCD(Abs(n), Abs(d))
             s == IF d < 0 THEN -1 ELSE 1
         IN  <<(s * n) \div g, (s * d) \div g>>

\* -------------------------------------------------------------- MetricRMSE
MetricRMSE_Clear(o) == [o EXCEPT !.sum_err = 0, !.cnt_inst = 0]

\* the constructor, run on memory holding g
MetricRMSE_ctor(g) ==
    MetricRMSE_Clear([type |-> "MetricRMSE",
                      sum_err |-> g[1], cnt_inst |-> g[2]])

\* the loop of AddEval from instance i on; sum_err is in quarters
RECURSIVE MetricRMSE_Loop(_, _, _)
MetricRMSE_Loop(o, b, i) ==
    IF ~(i < b.shape1) THEN o
    ELSE LET diff == b.predscore[i + 1][1] - b.labels[i + 1]
         IN  MetricRMSE_Loop([o EXCEPT !.sum_err = @ + diff * diff,
                                       !.cnt_inst = @ + 1], b, i + 1)

\* mutant: the shape is checked after the loop has run
MetricRMSE_AddEval_LateCheck(o, b) ==
    [res |-> utils_Assert(b.shape0 = 1), obj |-> MetricRMSE_Loop(o, b, 0)]

MetricRMSE_AddEval(o, b) ==
    IF utils_Assert(b.shape0 = 1) # "ok"
    THEN [res |-> "AssertError", obj |-> o]
    ELSE [res |-> "ok", obj |-> MetricRMSE_Loop(o, b, 0)]

\* std::sqrt( sum_err / cnt_inst ): the radicand is kept under a "sqrt" tag
MetricRMSE_Get(o) == <<"sqrt", Div(o.sum_err, 4 * o.cnt_inst)>>

MetricRMSE_Name == s_rmse

\* ----------------------------------------------------------- MetricCorrSqr
\* mutant: sum_ysqr is not reset
MetricCorrSqr_Clear_Partial(o) ==
    [o EXCEPT !.sum_x = 0, !.sum_y = 0, !.sum_xsqr = 0,
              !.sum_xyprod = 0, !.cnt_inst = 0]

MetricCorrSqr_Clear(o) ==
    [o EXCEPT !.sum_x = 0, !.sum_y = 0, !.sum_xsqr = 0, !.sum_ysqr = 0,
              !.sum_xyprod = 0, !.cnt_inst = 0]

MetricCorrSqr_ctor(g) ==
    MetricCorrSqr_Clear([type |-> "MetricCorrSqr",
                         sum_x |-> g[1], sum_y |-> g[2], sum_xsqr |-> g[3],
                         sum_ysqr |-> g[4], sum_xyprod |-> g[5],
                         cnt_inst |-> g[6]])

\* x and y are in halves (0.5f is 1), the three sums of products in quarters
RECURSIVE MetricCorrSqr_Loop(_, _, _)
MetricCorrSqr_Loop(o, b, i) ==
    IF ~(i < b.shape1) THEN o
    ELSE LET x == b.predscore[i + 1][1] - 1
             y == b.labels[i + 1] - 1
         IN  MetricCorrSqr_Loop([o EXCEPT !.sum_x = @ + x, !.sum_y = @ + y,
                                          !.sum_xsqr = @ + x * x,
                                          !.sum_ysqr = @ + y * y,
                                          !.sum_xyprod = @ + x * y,
                                          !.cnt_inst = @ + 1], b, i + 1)

MetricCorrSqr_AddEval(o, b) ==
    IF utils_Assert(b.shape0 = 1) # "ok"
    THEN [res |-> "AssertError", obj |-> o]
    ELSE [res |-> "ok", obj |-> MetricCorrSqr_Loop(o, b, 0)]

\* corr*corr / (xvar*yvar) in exact arithmetic: with n = cnt_inst each of
\* corr, xvar, yvar is (n*sum_ab - sum_a*sum_b) / (4 n^2), so the quotient
\* is that of the numerators; n = 0 divides zero by zero throughout.
MetricCorrSqr_Get(o) ==
    LET n == o.cnt_inst
        corr == n * o.sum_xyprod - o.sum_x * o.sum_y
        xvar == n * o.sum_xsqr - o.sum_x * o.sum_x
        yvar == n * o.sum_ysqr - o.sum_y * o.sum_y
    IN  IF n = 0 THEN "nan" ELSE Div(corr * corr, xvar * yvar)

MetricCorrSqr_Name == s_r2

\* ------------------------------------------------------------- MetricError
MetricError_Clear(o) == [o EXCEPT !.sum_err = 0, !.cnt_inst = 0]

MetricError_ctor(g) ==
    MetricError_Clear([type |-> "MetricError",
                       sum_err |-> g[1], cnt_inst |-> g[2]])

\* the loop of GetMaxIndex from column i on; pred[i] of the code is pred[i+1]
RECURSIVE GetMaxIndex_Loop(_, _, _)
GetMaxIndex_Loop(pred, maxidx, i) ==
    IF ~(i < Len(pred)) THEN maxidx
    ELSE GetMaxIndex_Loop(pred,
                          IF pred[i + 1] > pred[maxidx + 1] THEN i ELSE maxidx,
                          i + 1)

GetMaxIndex(pred) == GetMaxIndex_Loop(pred, 0, 1)

\* mutant: == in place of !=, so that the hits are counted, not the misses
RECURSIVE MetricError_Loop_Hits(_, _, _)
MetricError_Loop_Hits(o, b, i) ==
    IF ~(i < b.shape1) THEN o
    ELSE LET e == IF GetMaxIndex(b.predscore[i + 1]) = IntCast(b.labels[i + 1])
                  THEN 1 ELSE 0
         IN  MetricError_Loop_Hits([o EXCEPT !.sum_err = @ + e,
                                             !.cnt_inst = @ + 1], b, i + 1)

RECURSIVE MetricError_Loop(_, _, _)
MetricError_Loop(o, b, i) ==
    IF ~(i < b.shape1) THEN o
    ELSE LET e == IF GetMaxIndex(b.predscore[i + 1]) # IntCast(b.labels[i + 1])
                  THEN 1 ELSE 0
         IN  MetricError_Loop([o EXCEPT !.sum_err = @ + e,
                                        !.cnt_inst = @ + 1], b, i + 1)

\* mutant: the statistics restart with every batch
MetricError_AddEval_Restart(o, b) ==
    IF utils_Assert(b.shape0 = 1) # "ok"
    THEN [res |-> "AssertError", obj |-> o]
    ELSE [res |-> "ok", obj |-> MetricError_Loop(MetricError_Clear(o), b, 0)]

MetricError_AddEval(o, b) ==
    IF utils_Assert(b.shape0 = 1) # "ok"
    THEN [res |-> "AssertError", obj |-> o]
    ELSE [res |-> "ok", obj |-> MetricError_Loop(o, b, 0)]

MetricError_Get(o) == Div(o.sum_err, o.cnt_inst)

MetricError_Name == s_error

\* ------------------------------------------------------- virtual dispatch
Types == {"MetricRMSE", "MetricCorrSqr", "MetricError"}

IMetric_Clear(o) ==
    CASE o.type = "MetricRMSE" -> MetricRMSE_Clear(o)
      [] o.type = "MetricCorrSqr" -> MetricCorrSqr_Clear(o)
      [] o.type = "MetricError" -> MetricError_Clear(o)

IMetric_AddEval(o, b) ==
    CASE o.type = "MetricRMSE" -> MetricRMSE_AddEval(o, b)
      [] o.type = "MetricCorrSqr" -> MetricCorrSqr_AddEval(o, b)
      [] o.type = "MetricError" -> MetricError_AddEval(o, b)

IMetric_Get(o) ==
    CASE o.type = "MetricRMSE" -> MetricRMSE_Get(o)
      [] o.type = "MetricCorrSqr" -> MetricCorrSqr_Get(o)
      [] o.type = "MetricError" -> MetricError_Get(o)

IMetric_Name(o) ==
    CASE o.type = "MetricRMSE" -> MetricRMSE_Name
      [] o.type = "MetricCorrSqr" -> MetricCorrSqr_Name
      [] o.type = "MetricError" -> MetricError_Name

\* what the memory of a new instance of type t may hold before its constructor
Garbage(t) ==
    IF t = "MetricCorrSqr" THEN [1..6 -> GarbageVals] ELSE [1..2 -> GarbageVals]

\* new T(): the constructor run on memory holding g
New(t, g) ==
    CASE t = "MetricRMSE" -> MetricRMSE_ctor(g)
      [] t = "MetricCorrSqr" -> MetricCorrSqr_ctor(g)
      [] t = "MetricError" -> MetricError_ctor(g)


\* ================================================================ MetricSpec
\* One metric instance of any of the three types, used directly through the
\* IMetric interface, beside a second instance that is constructed anew each
\* time the first is cleared.

\* pre after a call other than AddMetric
NoPre == [evals_ |-> <<>>, heap |-> <<>>]

\* the MetricSet of Spec, just constructed
SetInit ==
    /\ evals_ = <<>>
    /\ heap = <<>>
    /\ live = {}
    /\ status = "running"
    /\ pre = NoPre
    /\ op = [name |-> "ctor"]
    /\ hist = [registered |-> {}, total |-> 0, evalSeen |-> FALSE,
               lateAdd |-> FALSE, made |-> 0]

MetricInit ==
    /\ \E t \in Types : \E g \in Garbage(t) : \E g2 \in Garbage(t) :
          /\ m = New(t, g)
          /\ fresh = New(t, g2)
    /\ mpre = m
    /\ mop = [name |-> "ctor", res |-> "ok", cleared |-> FALSE]
    /\ SetInit

\* a failed utils::Assert has ended the process
MRunning == mop.res = "ok"

\* m.Clear()
MClear ==
    /\ MRunning
    /\ m' = IMetric_Clear(m)
    /\ \E g \in Garbage(m.type) : fresh' = New(m.type, g)
    /\ mpre' = m
    /\ mop' = [name |-> "Clear", res |-> "ok",
               cleared |-> (mop.cleared \/ m.cnt_inst > 0)]
    /\ UNCHANGED svars

\* m.AddEval(b.predscore, b.labels)
MAddEval ==
    /\ MRunning
    /\ \E b \in Batches :
          /\ m.cnt_inst + b.shape1 <= MaxInst
          /\ LET r == IMetric_AddEval(m, b)
             IN  /\ m' = r.obj
                 /\ mop' = [name |-> "AddEval", arg |-> b, res |-> r.res,
                            cleared |-> mop.cleared]
          /\ fresh' = IMetric_AddEval(fresh, b).obj
    /\ mpre' = m
    /\ UNCHANGED svars

MetricNext == MClear \/ MAddEval

MetricSpec == MetricInit /\ [][MetricNext]_vars

\* ------------------------------------------------- claims about one metric
\* the last call was AddEval
MWasAddEval == mop.name = "AddEval"

\* the running sums and the instance count of a freshly constructed instance
IsZero(o) ==
    /\ o.cnt_inst = 0
    /\ IF o.type = "MetricCorrSqr"
       THEN /\ o.sum_x = 0 /\ o.sum_y = 0 /\ o.sum_xsqr = 0
            /\ o.sum_ysqr = 0 /\ o.sum_xyprod = 0
       ELSE o.sum_err = 0

\* C2 (as claimed): the Error-Rate metric's AddEval accepts every score buffer
\* whose output-axis size is >= 1: it signals no shape violation and
\* accumulates every instance of the batch.
C2_ErrorAcceptsAnyWidth ==
    (MWasAddEval /\ m.type = "MetricError" /\ mop.arg.shape0 >= 1)
       => /\ mop.res = "ok"
          /\ m.cnt_inst = mpre.cnt_inst + mop.arg.shape1

\* C3: an AddEval of RMSE or Squared-Correlation whose score buffer has an
\* output-axis size other than 1 signals an error and leaves the running sums
\* and the instance count as they were, whatever the batch's instance count.
C3_ShapeViolationRejected ==
    (MWasAddEval /\ m.type \in {"MetricRMSE", "MetricCorrSqr"}
        /\ mop.arg.shape0 # 1)
       => /\ mop.res = "AssertError"
          /\ m = mpre

C3_Witness ==
    /\ MWasAddEval
    /\ m.type = "MetricCorrSqr"
    /\ mop.arg.shape0 = 2
    /\ mop.arg.shape1 = 2
    /\ mpre.cnt_inst > 0
    /\ mop.res = "AssertError"

\* C4: Clear() puts the accumulator in the state of a freshly constructed
\* instance (every running sum and the count zero), so from a Clear on the
\* instance agrees, in its fields and in Get(), with an instance constructed
\* at that Clear and given the same AddEval calls.
C4_ClearIsFresh ==
    /\ mop.name = "Clear" => (IsZero(m) /\ m = fresh)
    /\ mop.cleared =>
          /\ m = fresh
          /\ m.cnt_inst > 0 => IMetric_Get(m) = IMetric_Get(fresh)

C4_Witness ==
    /\ MWasAddEval
    /\ mop.cleared
    /\ mop.res = "ok"
    /\ m.type = "MetricCorrSqr"
    /\ mpre.cnt_inst = 0
    /\ m.cnt_inst = 2
    /\ m.sum_ysqr > 0
    /\ IMetric_Get(m) = IMetric_Get(fresh)

\* C8: an AddEval with no instances leaves the running sums and the instance
\* count unchanged (and with them every later Get()), for each of the three
\* metrics; with one score per instance it is accepted.
C8_EmptyBatchNoChange ==
    (MWasAddEval /\ mop.arg.shape1 = 0)
       => /\ m = mpre
          /\ IMetric_Get(m) = IMetric_Get(mpre)
          /\ mop.arg.shape0 = 1 => mop.res = "ok"

C8_Witness ==
    /\ MWasAddEval
    /\ mop.arg.shape1 = 0
    /\ mop.arg.shape0 = 1
    /\ mop.res = "ok"
    /\ mpre.cnt_inst > 0
    /\ m.type = "MetricError"
    /\ mpre.sum_err > 0

\* the lowest index that holds the maximum of a score vector
LowestMaxIndex(pred) ==
    CHOOSE i \in 0..(Len(pred) - 1) :
        /\ \A j \in 0..(Len(pred) - 1) : pred[j + 1] <= pred[i + 1]
        /\ \A j \in 0..(i - 1) : pred[j + 1] < pred[i + 1]

\* the instances of b whose lowest maximal index is not the truncated label
Misses(b) ==
    {i \in 1..b.shape1 : LowestMaxIndex(b.predscore[i]) # IntCast(b.labels[i])}

\* C9: an accepted AddEval of the Error-Rate metric adds 1 to the count for
\* every instance and 1 to sum_err exactly for the instances whose lowest
\* maximal score index differs from the label truncated to an integer, so
\* sum_err never exceeds the count; GetMaxIndex returns that lowest index for
\* every score vector handed in.
C9_ErrorCountsMisses ==
    /\ (MWasAddEval /\ m.type = "MetricError") =>
          \A i \in 1..mop.arg.shape1 :
             GetMaxIndex(mop.arg.predscore[i])
                = LowestMaxIndex(mop.arg.predscore[i])
    /\ (MWasAddEval /\ m.type = "MetricError" /\ mop.res = "ok") =>
          /\ m.cnt_inst = mpre.cnt_inst + mop.arg.shape1
          /\ m.sum_err = mpre.sum_err + Cardinality(Misses(mop.arg))
    /\ m.type = "MetricError" => m.sum_err <= m.cnt_inst

C9_Witness ==
    /\ MWasAddEval
    /\ m.type = "MetricError"
    /\ mop.res = "ok"
    /\ mop.arg.shape1 = 2
    /\ Cardinality(Misses(mop.arg)) = 1
    /\ mpre.cnt_inst > 0
    /\ m.sum_err = mpre.sum_err + 1

\* ================================================================= MetricSet
\* An address a is an index into heap; heap[a] holds the fields of the
\* instance constructed there (they stay readable here after the instance is
\* gone, which the code never does).

\* the names the fprintf of a report is called with
EvNames == {"test"}

\* a->Name() through a pointer, with the heap h
NameOf(h, a) == IMetric_Name(h[a])

\* mutant: the pointers are ordered, not the names
CmpName_Ptr(h, a, b) == a < b

CmpName(h, a, b) == strcmp(NameOf(h, a), NameOf(h, b)) < 0

\* mutant: the pointers are compared, not the names
EqualName_Ptr(h, a, b) == a = b

EqualName(h, a, b) == strcmp(NameOf(h, a), NameOf(h, b)) = 0

\* the elements of a sequence
Range(s) == {s[i] : i \in 1..Len(s)}

\* the orders of v: the sequences holding each element of v once
Orders(v) ==
    {p \in [1..Len(v) -> Range(v)] : \A x \in Range(v) : \E i \in 1..Len(v) : p[i] = x}

\* std::sort( begin, end, CmpName ): v reordered so that no element is
\* CmpName-before one that precedes it.  std::sort does not promise to keep
\* the order of equivalent elements, so any such order may come out.
StdSort(h, v) ==
    {p \in Orders(v) :
        \A i \in 1..Len(v) : \A j \in (i + 1)..Len(v) : ~CmpName(h, p[j], p[i])}

\* std::unique( begin, end, EqualName ) with the resize to its result: of
\* every run of consecutive equivalent elements the first is kept
RECURSIVE StdUnique(_, _, _, _)
StdUnique(h, v, i, kept) ==
    IF i > Len(v) THEN kept
    ELSE IF kept # <<>> /\ EqualName(h, kept[Len(kept)], v[i])
         THEN StdUnique(h, v, i + 1, kept)
         ELSE StdUnique(h, v, i + 1, Append(kept, v[i]))

\* if( c ) evals_.push_back( new T() ), on each state of S
PushIf(S, c, t) ==
    IF c
    THEN {[evals_ |-> Append(s.evals_, Len(s.heap) + 1),
           heap |-> Append(s.heap, New(t, g))] : s \in S, g \in Garbage(t)}
    ELSE S

\* the three if statements of AddMetric
Pushed(name) ==
    LET S0 == {[evals_ |-> evals_, heap |-> heap]}
        S1 == PushIf(S0, strcmp(name, s_rmse) = 0, "MetricRMSE")
        S2 == PushIf(S1, strcmp(name, s_error) = 0, "MetricError")
    IN  PushIf(S2, strcmp(name, s_r2) = 0, "MetricCorrSqr")

Running == status = "running"

\* the names AddMetric constructs an instance for
Registry == {s_rmse, s_error, s_r2}

\* AddMetric( name )
AddMetric ==
    /\ Running
    /\ \E name \in NameArgs : \E s \in Pushed(name) :
          /\ Len(s.heap) <= MaxAlloc
          /\ \E sorted \in StdSort(s.heap, s.evals_) :
                evals_' = StdUnique(s.heap, sorted, 1, <<>>)
          /\ heap' = s.heap
          /\ live' = live \cup ((1..Len(s.heap)) \ (1..Len(heap)))
          /\ op' = [name |-> "AddMetric", arg |-> name]
          /\ hist' = [hist EXCEPT
                 !.registered = IF Len(s.heap) > Len(heap)
                                THEN @ \cup {name} ELSE @,
                 !.lateAdd = @ \/ hist.evalSeen,
                 !.made = Len(s.heap)]
    /\ pre' = [evals_ |-> evals_, heap |-> heap]
    /\ UNCHANGED status
    /\ UNCHANGED mvars

\* mutant: the loop of Clear starts at the second member
RECURSIVE MetricSet_ClearLoop_From1(_, _, _)
MetricSet_ClearLoop_From1(v, h, i) ==
    IF i = 0 THEN MetricSet_ClearLoop_From1(v, h, 1)
    ELSE IF ~(i < Len(v)) THEN h
    ELSE MetricSet_ClearLoop_From1(v, [h EXCEPT ![v[i + 1]] = IMetric_Clear(@)],
                                   i + 1)

\* the loop of Clear from member i on
RECURSIVE MetricSet_ClearLoop(_, _, _)
MetricSet_ClearLoop(v, h, i) ==
    IF ~(i < Len(v)) THEN h
    ELSE MetricSet_ClearLoop(v, [h EXCEPT ![v[i + 1]] = IMetric_Clear(@)], i + 1)

\* Clear()
MetricSet_Clear ==
    /\ Running
    /\ heap' = MetricSet_ClearLoop(evals_, heap, 0)
    /\ op' = [name |-> "Clear"]
    /\ hist' = [hist EXCEPT !.total = 0]
    /\ pre' = NoPre
    /\ UNCHANGED <<evals_, live, status>>
    /\ UNCHANGED mvars

\* the loop of AddEval from member i on; it ends at the first member whose
\* AddEval fails its assertion
RECURSIVE MetricSet_AddEvalLoop(_, _, _, _, _)
MetricSet_AddEvalLoop(v, h, b, i, visited) ==
    IF ~(i < Len(v)) THEN [res |-> "ok", heap |-> h, visited |-> visited]
    ELSE LET a == v[i + 1]
             r == IMetric_AddEval(h[a], b)
             h2 == [h EXCEPT ![a] = r.obj]
         IN  IF r.res # "ok"
             THEN [res |-> r.res, heap |-> h2, visited |-> Append(visited, a)]
             ELSE MetricSet_AddEvalLoop(v, h2, b, i + 1, Append(visited, a))

\* AddEval( predscore, labels )
MetricSet_AddEval ==
    /\ Running
    /\ \E b \in SetBatches :
          /\ hist.total + b.shape1 <= MaxTotal
          /\ LET r == MetricSet_AddEvalLoop(evals_, heap, b, 0, <<>>)
             IN  /\ heap' = r.heap
                 /\ status' = IF r.res = "ok" THEN "running" ELSE "aborted"
                 /\ op' = [name |-> "AddEval", res |-> r.res,
                           visited |-> r.visited]
                 /\ hist' = [hist EXCEPT
                        !.total = IF r.res = "ok" THEN @ + b.shape1 ELSE @,
                        !.evalSeen = TRUE]
    /\ pre' = NoPre
    /\ UNCHANGED <<evals_, live>>
    /\ UNCHANGED mvars

\* the loop of the report from member i on: the arguments of each fprintf
RECURSIVE MetricSet_PrintLoop(_, _, _, _)
MetricSet_PrintLoop(v, h, evname, i) ==
    IF ~(i < Len(v)) THEN <<>>
    ELSE <<[evname |-> evname, name |-> NameOf(h, v[i + 1]),
            value |-> IMetric_Get(h[v[i + 1]])]>>
         \o MetricSet_PrintLoop(v, h, evname, i + 1)

\* the report, Print( fo, evname ): op.fo is what the call writes to fo
MetricSet_Print ==
    /\ Running
    /\ \E evname \in EvNames :
          op' = [name |-> "Print", arg |-> evname,
                 fo |-> MetricSet_PrintLoop(evals_, heap, evname, 0)]
    /\ pre' = NoPre
    /\ UNCHANGED <<evals_, heap, live, status, hist>>
    /\ UNCHANGED mvars

\* ~MetricSet(): every member is deleted, then the vector is
MetricSet_dtor ==
    /\ Running
    /\ live' = live \ Range(evals_)
    /\ evals_' = <<>>
    /\ status' = "destroyed"
    /\ op' = [name |-> "dtor"]
    /\ pre' = NoPre
    /\ UNCHANGED <<heap, hist>>
    /\ UNCHANGED mvars

Init ==
    /\ m = New("MetricRMSE", [i \in 1..2 |-> 0])
    /\ fresh = m
    /\ mpre = m
    /\ mop = [name |-> "ctor", res |-> "ok", cleared |-> FALSE]
    /\ SetInit

Next ==
    \/ AddMetric
    \/ MetricSet_Clear
    \/ MetricSet_AddEval
    \/ MetricSet_Print
    \/ MetricSet_dtor

Spec == Init /\ [][Next]_vars

\* ------------------------------------------------ claims about a MetricSet
\* the names of the members, in collection order
MemberNames == [i \in 1..Len(evals_) |-> NameOf(heap, evals_[i])]

\* the fragments a report wrote under name n
FragmentsOf(n) == {i \in 1..Len(op.fo) : op.fo[i].name = n}

\* C1: after any sequence of AddMetric calls no two members have the same
\* Name(), there is a member for exactly the registry names that were added,
\* and a report writes exactly one fragment for each of them.
C1_OneMemberPerName ==
    /\ \A i \in 1..Len(evals_) : \A j \in 1..Len(evals_) :
          i # j => MemberNames[i] # MemberNames[j]
    /\ status # "destroyed" => Range(MemberNames) = hist.registered
    /\ op.name = "Print" =>
          /\ Len(op.fo) = Cardinality(hist.registered)
          /\ \A n \in hist.registered : Cardinality(FragmentsOf(n)) = 1

C1_Witness ==
    /\ op.name = "Print"
    /\ hist.registered = {s_rmse}
    /\ hist.made = 2
    /\ Cardinality(FragmentsOf(s_rmse)) = 1

\* C5: AddEval and Clear of the set visit every member once, in collection
\* order, which is ascending by name; when every AddMetric call came before
\* the first AddEval, each member's instance count is the number of instances
\* passed to the set since its last Clear (zero right after a Clear).
C5_FanOutReachesAll ==
    /\ \A i \in 1..Len(evals_) : \A j \in (i + 1)..Len(evals_) :
          strcmp(MemberNames[i], MemberNames[j]) < 0
    /\ (op.name = "AddEval" /\ op.res = "ok") => op.visited = evals_
    /\ (status = "running" /\ ~hist.lateAdd) =>
          \A i \in 1..Len(evals_) : heap[evals_[i]].cnt_inst = hist.total
    /\ op.name = "Clear" =>
          /\ hist.total = 0
          /\ \A i \in 1..Len(evals_) : IsZero(heap[evals_[i]])

C5_Witness ==
    /\ op.name = "AddEval"
    /\ op.res = "ok"
    /\ ~hist.lateAdd
    /\ Len(evals_) = 3
    /\ MemberNames = <<s_error, s_r2, s_rmse>>
    /\ op.visited = evals_
    /\ hist.total = 2
    /\ \A i \in 1..3 : heap[evals_[i]].cnt_inst = 2

\* C6 (as claimed): every instance AddMetric constructed is a member of the
\* set or has been destroyed, and none is alive once the destructor has run.
C6_NoInstanceLeaks ==
    /\ \A a \in 1..Len(heap) : a \in Range(evals_) \/ a \notin live
    /\ status = "destroyed" => live = {}

\* the last call was AddMetric
WasAddMetric == op.name = "AddMetric"

\* C7: AddMetric with a name outside the registry raises no error and leaves
\* the set unchanged: the same members in the same order, each with its
\* statistics unchanged, and nothing constructed.
C7_UnknownNameIgnored ==
    (WasAddMetric /\ op.arg \notin Registry)
       => /\ status = "running"
          /\ evals_ = pre.evals_
          /\ heap = pre.heap

C7_Witness ==
    /\ WasAddMetric
    /\ op.arg = s_rms
    /\ Len(evals_) = 3
    /\ \A i \in 1..3 : heap[evals_[i]].cnt_inst > 0
    /\ evals_ = pre.evals_
    /\ heap = pre.heap

\* the address of the member of sequence v (with heap h) named n
MemberNamed(h, v, n) == CHOOSE a \in Range(v) : NameOf(h, a) = n

\* the last call was AddMetric with a name that already was a member
WasRepeatedAdd ==
    /\ WasAddMetric
    /\ \E a \in Range(pre.evals_) : NameOf(pre.heap, a) = op.arg

\* C10 (as claimed): AddMetric with a name that is already a member leaves,
\* under every name of the set, the statistics that were there before.
C10_ExistingMemberSurvives ==
    WasRepeatedAdd =>
       \A a \in Range(pre.evals_) :
          \E a2 \in Range(evals_) :
             /\ NameOf(heap, a2) = NameOf(pre.heap, a)
             /\ heap[a2] = pre.heap[a]

\* C10 (amended): AddMetric with a name that is already a member keeps one
\* member for each name; a member under another name is the same instance
\* with its statistics unchanged; the member under the repeated name is
\* either the existing instance with its statistics unchanged or the newly
\* constructed instance with all statistics zero.
C10_SurvivorIsOldOrNew ==
    WasRepeatedAdd =>
       /\ Len(evals_) = Len(pre.evals_)
       /\ \A a \in Range(pre.evals_) :
             LET a2 == MemberNamed(heap, evals_, NameOf(pre.heap, a))
             IN  /\ \E x \in Range(evals_) : NameOf(heap, x) = NameOf(pre.heap, a)
                 /\ IF NameOf(pre.heap, a) # op.arg
                    THEN a2 = a /\ heap[a2] = pre.heap[a]
                    ELSE \/ a2 = a /\ heap[a2] = pre.heap[a]
                         \/ a2 = Len(heap) /\ a2 \notin Range(pre.evals_)
                              /\ IsZero(heap[a2])

C10_Witness ==
    /\ WasRepeatedAdd
    /\ Len(pre.evals_) = 2
    /\ \A a \in Range(pre.evals_) : pre.heap[a].cnt_inst > 0
    /\ MemberNamed(heap, evals_, op.arg) = Len(heap)
    /\ IsZero(heap[Len(heap)])

====
